---------------------------- MODULE Spec2Model ----------------------------
(***************************************************************************)
(* Source initialisation of scarlet (src/scarlet/source.py) and its        *)
(* Parameter type (src/scarlet/parameter.py).                              *)
(*                                                                         *)
(* The library is a set of functions and constructors that are called one  *)
(* at a time.  The state is the call in hand: which operation ran (fn),    *)
(* the values it was given (args) and what the caller holds afterwards     *)
(* (ret).  Every Call action is one whole call, made when no call is in    *)
(* hand; Return lets the caller drop the result.                           *)
(*                                                                         *)
(* Numbers.  A float is modelled by an exact extended rational [n, d]:     *)
(* d > 0 is the fraction n/d in lowest terms, [1,0] is +inf, [-1,0] is     *)
(* -inf and [0,0] is nan, so that a division by zero gives what numpy      *)
(* gives (x/0 = +-inf, 0/0 = nan) instead of being left out.  Rounding and *)
(* signed zeros are not modelled.  A value the code obtains with np.sqrt   *)
(* is kept exact as a surd [coef, rad], the number coef * sqrt(rad).       *)
(***************************************************************************)
EXTENDS Integers, Sequences, FiniteSets, TLC

VARIABLES fn, args, ret

vars == <<fn, args, ret>>

---------------------------------------------------------------------------
(* Extended rationals *)

Abs(i) == IF i < 0 THEN -i ELSE i

RECURSIVE Pow2(_)
Pow2(n) == IF n = 0 THEN 1 ELSE 2 * Pow2(n - 1)

Sign(i) == IF i < 0 THEN -1 ELSE IF i > 0 THEN 1 ELSE 0

RECURSIVE Gcd(_, _)
Gcd(a, b) == IF b = 0 THEN a ELSE Gcd(b, a % b)

Norm(n, d) ==
    IF d = 0 THEN [n |-> Sign(n), d |-> 0]
    ELSE LET g == Gcd(Abs(n), Abs(d))
         IN  [n |-> (Sign(d) * n) \div g, d |-> Abs(d) \div g]

R(n, d) == Norm(n, d)
I(n) == [n |-> n, d |-> 1]
Zero == I(0)
One == I(1)
NaN == [n |-> 0, d |-> 0]
PInf == [n |-> 1, d |-> 0]
NInf == [n |-> -1, d |-> 0]

IsNaN(a) == a.d = 0 /\ a.n = 0
IsFinite(a) == a.d > 0

\* Common factors are cancelled before multiplying, so that the products
\* stay small.
Mul(a, b) ==
    LET g1 == Gcd(Abs(a.n), b.d)
        g2 == Gcd(Abs(b.n), a.d)
    IN  IF g1 = 0 \/ g2 = 0 THEN Norm(a.n * b.n, a.d * b.d)
        ELSE Norm((a.n \div g1) * (b.n \div g2), (a.d \div g2) * (b.d \div g1))

Add(a, b) ==
    IF a.d = 0 /\ b.d = 0 /\ a.n = b.n THEN a
    ELSE IF a.d = 0 \/ b.d = 0 THEN Norm(a.n * b.d + b.n * a.d, 0)
    ELSE LET g == Gcd(a.d, b.d)
         IN  Norm(a.n * (b.d \div g) + b.n * (a.d \div g), (a.d \div g) * b.d)

Neg(a) == [n |-> -a.n, d |-> a.d]

Sub(a, b) == Add(a, Neg(b))

\* 1/b: 1/0 is +inf, 1/inf is 0, 1/nan is nan.
Inv(b) ==
    IF b.d = 0 THEN (IF b.n = 0 THEN NaN ELSE Zero)
    ELSE IF b.n = 0 THEN PInf
    ELSE Norm(b.d, b.n)

Div(a, b) == Mul(a, Inv(b))

\* a > b as IEEE compares: false when either side is nan.
Gt(a, b) ==
    /\ ~IsNaN(a)
    /\ ~IsNaN(b)
    /\ IF a.d = 0 \/ b.d = 0
       THEN a.n * b.d > b.n * a.d \/ (a = PInf /\ b = NInf)
       ELSE LET g == Gcd(a.d, b.d)
            IN  a.n * (b.d \div g) > b.n * (a.d \div g)

Le(a, b) == ~IsNaN(a) /\ ~IsNaN(b) /\ ~Gt(a, b)

Ge(a, b) == Le(b, a)

Lt(a, b) == Gt(b, a)

---------------------------------------------------------------------------
(* Surds: coef * sqrt(rad), rad >= 0 *)

SurdSqrt(x) == [coef |-> IF Ge(x, Zero) THEN One ELSE NaN, rad |-> x]

SurdOf(x) == [coef |-> x, rad |-> One]

SurdMul(s, x) == [coef |-> Mul(s.coef, x), rad |-> s.rad]

SurdDiv(s, x) == [coef |-> Div(s.coef, x), rad |-> s.rad]

\* The sign of the surd's value: 1, -1, 0, or 2 when the value is nan.
SurdSign(s) ==
    IF IsNaN(s.coef) \/ IsNaN(s.rad) \/ (s.coef.d = 0 /\ s.rad.n = 0) THEN 2
    ELSE IF s.rad.n = 0 THEN 0
    ELSE Sign(s.coef.n)

\* x > coef * sqrt(rad), decided exactly by comparing squares.
GtSurd(x, s) ==
    LET sg == SurdSign(s)
        sq == Mul(Mul(s.coef, s.coef), s.rad)
    IN  /\ ~IsNaN(x)
        /\ sg # 2
        /\ IF sg = 0 THEN Gt(x, Zero)
           ELSE IF sg = 1 THEN Gt(x, Zero) /\ Gt(Mul(x, x), sq)
           ELSE Ge(x, Zero) \/ Lt(Mul(x, x), sq)

---------------------------------------------------------------------------
(* Arrays: a 2-D array is a function on the pixel index pairs <<y, x>>. *)

Idx(h, w) == (0 .. h - 1) \X (0 .. w - 1)

\* The array f itself, with every entry evaluated once.
Array(f) == f @@ <<>>

Rows(a) == {p[1] : p \in DOMAIN a}
Cols(a) == {p[2] : p \in DOMAIN a}

SetMax(S) == CHOOSE m \in S : \A k \in S : k <= m
SetMin(S) == CHOOSE m \in S : \A k \in S : m <= k

\* np.max over a set of values: nan if any entry is nan.
ValMax(S) ==
    IF \E v \in S : IsNaN(v) THEN NaN
    ELSE CHOOSE m \in S : \A v \in S : Le(v, m)

ArrMax(a) == ValMax({a[p] : p \in DOMAIN a})

---------------------------------------------------------------------------
(* Frame and Box (scarlet.frame, scarlet.bbox): the parts source.py calls *)

\* Frame.get_pixel for a frame without WCS: the integer pixel of the coordinate.
GetPixel(frame, sky_coord) == sky_coord

\* Box.from_bounds over two axes.
Box2(ys, xs) == [start |-> <<ys[1], xs[1]>>, stop |-> <<ys[2], xs[2]>>]

\* Box.from_bounds over channel and two spatial axes.
Box3(cs, ys, xs) == [start |-> <<cs[1], ys[1], xs[1]>>, stop |-> <<cs[2], ys[2], xs[2]>>]

\* Box.from_data: the tight box of the entries above min_value, empty at the
\* origin when there is none.
FromData(X, min_value) ==
    LET sel == {p \in DOMAIN X : Gt(X[p], min_value)}
    IN  IF sel # {}
        THEN Box2(<<SetMin({p[1] : p \in sel}), SetMax({p[1] : p \in sel}) + 1>>,
                  <<SetMin({p[2] : p \in sel}), SetMax({p[2] : p \in sel}) + 1>>)
        ELSE Box2(<<0, 0>>, <<0, 0>>)

\* Box.contains
Contains(bbox, p) ==
    \A i \in 1 .. Len(p) : bbox.start[i] <= p[i] /\ p[i] < bbox.stop[i]

\* Box.extract_from for a 2-D image: the box's pixels, 0 outside the image.
ExtractFrom(bbox, image) ==
    [p \in Idx(bbox.stop[1] - bbox.start[1], bbox.stop[2] - bbox.start[2]) |->
        LET q == <<p[1] + bbox.start[1], p[2] + bbox.start[2]>>
        IN  IF q \in DOMAIN image THEN image[q] ELSE Zero]

---------------------------------------------------------------------------
(* trim_morphology *)

BaseBoxSize == 16

\* A box that grows by the base size instead of doubling.
RECURSIVE GrowBoxLinear(_, _)
GrowBoxLinear(boxsize, size) ==
    IF boxsize < size THEN GrowBoxLinear(boxsize + BaseBoxSize, size) ELSE boxsize

\* while boxsize < size: boxsize *= 2
RECURSIVE GrowBox(_, _)
GrowBox(boxsize, size) == IF boxsize < size THEN GrowBox(boxsize * 2, size) ELSE boxsize

\* mask = morph > bg_cutoff * thresh
TrimMask(morph, bg_cutoff, thresh) ==
    {p \in DOMAIN morph : GtSurd(morph[p], SurdMul(bg_cutoff, thresh))}

\* morph[~mask] = 0; morph /= morph[center], both in place
TrimInPlace(morph, mask, pixel_center) ==
    LET zeroed == [p \in DOMAIN morph |-> IF p \in mask THEN morph[p] ELSE Zero]
        center_morph == zeroed[pixel_center]
    IN  Array([p \in DOMAIN morph |-> Div(zeroed[p], center_morph)])

\* size = 2 * max(distances from the center to the four sides of bbox)
FitSize(bbox, pixel_center) ==
    2 * SetMax({pixel_center[1] - bbox.start[1], bbox.stop[1] - pixel_center[1],
                pixel_center[2] - bbox.start[2], bbox.stop[2] - pixel_center[2]})

TrimBoxSize(morph, mask, pixel_center) ==
    IF mask # {}
    THEN LET bbox == FromData(morph, Zero)
         IN  IF Contains(bbox, pixel_center)
             THEN GrowBox(BaseBoxSize, FitSize(bbox, pixel_center))
             ELSE BaseBoxSize
    ELSE BaseBoxSize

\* The whole function.  inplace is the caller's morph array after the call,
\* warned tells whether the no-flux warning was logged.
TrimMorphology(sky_coord, frame, morph, bg_cutoff, thresh) ==
    LET Cut(mask, trimmed, bottom, top, left, right) ==
            [morph |-> Array(ExtractFrom(Box2(<<bottom, top>>, <<left, right>>), trimmed)),
             bbox |-> Box3(<<0, frame.C>>, <<bottom, top>>, <<left, right>>),
             inplace |-> trimmed,
             warned |-> mask = {}]
        Boxed(mask, pixel_center, trimmed, boxsize) ==
            Cut(mask, trimmed,
                pixel_center[1] - boxsize \div 2, pixel_center[1] + boxsize \div 2,
                pixel_center[2] - boxsize \div 2, pixel_center[2] + boxsize \div 2)
        Trimmed(mask, pixel_center, trimmed) ==
            Boxed(mask, pixel_center, trimmed, TrimBoxSize(trimmed, mask, pixel_center))
        Thresholded(mask, pixel_center) ==
            Trimmed(mask, pixel_center,
                    IF mask # {} THEN TrimInPlace(morph, mask, pixel_center) ELSE morph)
    IN  Thresholded(TrimMask(morph, bg_cutoff, thresh), GetPixel(frame, sky_coord))

---------------------------------------------------------------------------
(* Optional values and vectors.  A vector (an SED, a list of observations,  *)
(* the channels of an image cube) is a sequence: index k of the model is    *)
(* Python's index k - 1.  Pixel coordinates are Python's.                   *)

None == [t |-> "None"]
Some(v) == [t |-> "Some", v |-> v]
IsNone(x) == x.t = "None"

\* The sum of s[lo .. hi], halving the range.
RECURSIVE SumRange(_, _, _)
SumRange(s, lo, hi) ==
    IF lo > hi THEN Zero
    ELSE IF lo = hi THEN s[lo]
    ELSE LET mid == (lo + hi) \div 2
         IN  Add(SumRange(s, lo, mid), SumRange(s, mid + 1, hi))

SumSeq(s) == SumRange(s, 1, Len(s))

\* The sum of the entries of the 2-D array X at the pixels of S.
SumOver(X, S) ==
    LET w == SetMax(Cols(X)) + 1
        h == SetMax(Rows(X)) + 1
    IN  SumSeq([k \in 1 .. h * w |->
                   LET p == <<(k - 1) \div w, (k - 1) % w>>
                   IN  IF p \in S THEN X[p] ELSE Zero])

RECURSIVE Flatten(_)
Flatten(ss) == IF ss = <<>> THEN <<>> ELSE Head(ss) \o Flatten(Tail(ss))

SurdSquare(s) == Mul(Mul(s.coef, s.coef), s.rad)

\* 1 / s
SurdInv(s) == [coef |-> Inv(s.coef), rad |-> Inv(s.rad)]

---------------------------------------------------------------------------
(* get_pixel_sed, get_psf_sed *)

\* observation.images[:, pixel[0], pixel[1]].copy()
GetPixelSed(sky_coord, observation) ==
    LET pixel == GetPixel(observation.frame, sky_coord)
    IN  [c \in 1 .. Len(observation.images) |-> observation.images[c][pixel]]

\* psf.image.max(axis=(1, 2))
PsfPeaks(psf) == [c \in 1 .. Len(psf.image) |-> ArrMax(psf.image[c])]

\* The target frame's peak taken in the SED's own channel.
FramePeakOfChannel(frame, c) == ArrMax(frame.psf.v.image[c])

\* frame.psf.image[0].max()
FramePeak(frame, c) == ArrMax(frame.psf.v.image[1])

GetPsfSed(sky_coord, observation, frame) ==
    LET sed == GetPixelSed(sky_coord, observation)
        normed == IF ~IsNone(observation.frame.psf)
                  THEN [c \in 1 .. Len(sed) |->
                            Div(sed[c], PsfPeaks(observation.frame.psf.v)[c])]
                  ELSE sed
    IN  IF ~IsNone(frame.psf)
        THEN [c \in 1 .. Len(sed) |-> Mul(normed[c], FramePeak(frame, c))]
        ELSE normed

---------------------------------------------------------------------------
(* build_sed_coadd *)

\* interpolate_observation (scarlet.interpolation) onto a frame with the
\* observation's own pixel grid.
InterpolateObservation(obs, frame) == obs.images

\* np.any(bg_rms < 0): a zero RMS passes.
BadRmsStrict(bg_rms) == \E c \in 1 .. Len(bg_rms) : SurdSign(bg_rms[c]) = -1

\* np.any(bg_rms <= 0)
BadRms(bg_rms) == \E c \in 1 .. Len(bg_rms) : SurdSign(bg_rms[c]) \in {0, -1}

\* One pass of the loop body after the RMS check: what the observation adds
\* to positive_img, positive_bgrms, weights and jacobian_args.
ChannelTerms(sed, bg_rms, obs, obs_ref) ==
    LET positive == SelectSeq([c \in 1 .. Len(sed) |-> c], LAMBDA c : Gt(sed[c], Zero))
        imgs == IF obs.kind = "Observation" THEN obs.images
                ELSE InterpolateObservation(obs, obs_ref.frame)
    IN  [k \in 1 .. Len(positive) |->
            LET c == positive[k]
            IN  [img |-> imgs[c],
                 bgrms |-> bg_rms[c],
                 weight |-> Div(sed[c], SurdSquare(bg_rms[c])),
                 jac |-> Div(Mul(sed[c], sed[c]), SurdSquare(bg_rms[c]))]]

\* The loop over the observations from the i-th on: the terms collected, or
\* the ValueError of the first observation with a non-positive RMS.
RECURSIVE CoaddLoop(_, _, _, _, _, _)
CoaddLoop(i, terms, seds, bg_rmses, observations, obs_ref) ==
    IF i > Len(observations) THEN [status |-> "ok", terms |-> terms]
    ELSE IF BadRms(bg_rmses[i]) THEN [status |-> "ValueError"]
    ELSE CoaddLoop(i + 1,
                   terms \o ChannelTerms(seds[i], bg_rmses[i], observations[i], obs_ref),
                   seds, bg_rmses, observations, obs_ref)

\* np.einsum("i,i...", weights, positive_img) / np.sum(jacobian_args); with no
\* positive channel the sum is the 0-d array 0.
Detect(terms) ==
    LET J == SumSeq([k \in 1 .. Len(terms) |-> terms[k].jac])
        dom == IF terms = <<>> THEN {<<>>} ELSE DOMAIN terms[1].img
    IN  Array([p \in dom |->
            Div(SumSeq([k \in 1 .. Len(terms) |-> Mul(terms[k].weight, terms[k].img[p])]), J)])

\* np.sqrt((weights ** 2 * positive_bgrms ** 2).sum()) / np.sum(jacobian_args)
BgCutoff(terms) ==
    SurdDiv(SurdSqrt(SumSeq([k \in 1 .. Len(terms) |->
                        Mul(Mul(terms[k].weight, terms[k].weight),
                            SurdSquare(terms[k].bgrms))])),
            SumSeq([k \in 1 .. Len(terms) |-> terms[k].jac]))

BuildSedCoadd(seds, bg_rmses, observations) ==
    LET loc == {i \in 1 .. Len(observations) : observations[i].kind = "Observation"}
        Summed(loop) ==
            IF loop.status # "ok" THEN loop
            ELSE [status |-> "ok",
                  detect |-> Detect(loop.terms),
                  bg_cutoff |-> BgCutoff(loop.terms)]
    IN  IF loc = {} THEN [status |-> "IndexError"]
        ELSE Summed(CoaddLoop(1, <<>>, seds, bg_rmses, observations,
                              observations[SetMin(loc)]))

---------------------------------------------------------------------------
(* Projections of scarlet.operator, as init_extended_source uses them *)

\* np.min of two values: nan if either is nan.
MinNan(a, b) == IF IsNaN(a) \/ IsNaN(b) THEN NaN ELSE IF Lt(b, a) THEN b ELSE a

\* std::min(a, b): b if b < a, else a.
MinStd(a, b) == IF Lt(b, a) THEN b ELSE a

\* prox_uncentered_symmetry(X, 0, center, algorithm="sdss"), fill=None: every
\* pixel with a partner on the other side of the center gets the smaller of
\* the two values, the others stay.  The result is a new array when X is.
ProxUncenteredSymmetry(X, center) ==
    Array([p \in DOMAIN X |->
        LET q == <<2 * center[1] - p[1], 2 * center[2] - p[2]>>
        IN  IF q \in DOMAIN X THEN MinNan(X[p], X[q]) ELSE X[p]])

Dist2(p, center) ==
    (p[1] - center[1]) * (p[1] - center[1]) + (p[2] - center[2]) * (p[2] - center[2])

\* The neighbours of p that are closer to the center: with neighbor_weight
\* "flat" they weigh the same.
CloserNeighbours(X, p, center) ==
    {q \in DOMAIN X :
        /\ q # p
        /\ Abs(q[1] - p[1]) <= 1 /\ Abs(q[2] - p[2]) <= 1
        /\ Dist2(q, center) < Dist2(p, center)}

\* The pixels at squared distance d2 are capped by (1 - min_gradient) times
\* the mean of their closer neighbours (with neighbor_weight "flat" they weigh
\* the same); then the next distance.
RECURSIVE MonotonicFrom(_, _, _, _)
MonotonicFrom(X, d2, center, min_gradient) ==
    LET ring == {p \in DOMAIN X : Dist2(p, center) = d2}
        Cap(p) == MinStd(X[p], Mul(Div(SumOver(X, CloserNeighbours(X, p, center)),
                                       I(Cardinality(CloserNeighbours(X, p, center)))),
                                   Sub(One, min_gradient)))
        Outward(capped, further) ==
            IF further = {} THEN capped
            ELSE MonotonicFrom(capped, SetMin(further), center, min_gradient)
    IN  Outward(Array([p \in DOMAIN X |-> IF p \in ring THEN Cap(p) ELSE X[p]]),
                {Dist2(p, center) : p \in {q \in DOMAIN X : Dist2(q, center) > d2}})

\* prox_weighted_monotonic(shape, neighbor_weight="flat", center, min_gradient)
\* applied to X: pixels are visited by growing distance from the center, which
\* itself is left as it is.
ProxWeightedMonotonic(X, center, min_gradient) ==
    LET others == {Dist2(p, center) : p \in DOMAIN X} \ {0}
    IN  IF others = {} THEN X
        ELSE MonotonicFrom(X, SetMin(others), center, min_gradient)

---------------------------------------------------------------------------
(* init_extended_source *)

\* 1 / np.sqrt(w[w > 0].mean()) for one channel's weights
RmsOfWeights(w) ==
    LET pos == {p \in DOMAIN w : Gt(w[p], Zero)}
        mean == Div(SumOver(w, pos), I(Cardinality(pos)))
    IN  SurdInv(SurdSqrt(mean))

\* Lines 216-229: the coadd and cutoff to use, or the exception raised.
CoaddOrBuild(seds, observations, coadd, bg_cutoff) ==
    LET Built(built) ==
            IF built.status # "ok" THEN built
            ELSE [status |-> "ok", coadd |-> built.detect,
                  bg_cutoff |-> built.bg_cutoff, built |-> TRUE]
    IN  IF IsNone(coadd)
        THEN IF \E i \in 1 .. Len(observations) : IsNone(observations[i].weights)
             THEN [status |-> "AttributeError"]
             ELSE Built(BuildSedCoadd(seds,
                            [i \in 1 .. Len(observations) |->
                                [c \in 1 .. Len(observations[i].weights.v) |->
                                    RmsOfWeights(observations[i].weights.v[c])]],
                            observations))
        ELSE IF IsNone(bg_cutoff) THEN [status |-> "AttributeError"]
        ELSE [status |-> "ok", coadd |-> coadd.v, bg_cutoff |-> bg_cutoff.v,
              built |-> FALSE]

\* Lines 231-244: the morphology handed to trim_morphology.
Constrained(coadd, center, symmetric, monotonic, min_grad) ==
    LET sym == IF symmetric THEN ProxUncenteredSymmetry(coadd, center) ELSE coadd
    IN  IF monotonic THEN ProxWeightedMonotonic(sym, center, min_grad) ELSE sym

\* The array the caller passed as coadd, as it is after the call.  Without
\* symmetric and monotonic, morph is the coadd itself (morph = coadd) and
\* trim_morphology works on it in place; the projections return new arrays.
CallerCoadd(got, symmetric, monotonic, trim) ==
    IF got.built THEN None
    ELSE IF ~symmetric /\ ~monotonic THEN Some(trim.inplace)
    ELSE Some(got.coadd)

\* The whole function.  warned holds the warnings logged.  A coadd built from
\* no positive channel is the 0-d array 0 / 0, which the projections and the
\* box extraction cannot index.
InitExtendedSource(sky_coord, frame, observations, coadd, bg_cutoff, thresh, symmetric, monotonic, min_grad) ==
    LET SedWarning(sed) ==
            IF \A c \in 1 .. Len(sed) : Le(sed[c], Zero) THEN {"sed"} ELSE {}
        Trimmed(sed, got, trim) ==
            [status |-> "ok",
             sed |-> sed,
             morph |-> trim.morph,
             bbox |-> trim.bbox,
             warned |-> SedWarning(sed) \cup (IF trim.warned THEN {"noflux"} ELSE {}),
             coadd |-> got.coadd,
             bg_cutoff |-> got.bg_cutoff,
             caller_coadd |-> CallerCoadd(got, symmetric, monotonic, trim)]
        Detected(sed, got) ==
            IF got.status # "ok" THEN [status |-> got.status, warned |-> SedWarning(sed)]
            ELSE IF DOMAIN got.coadd = {<<>>}
            THEN [status |-> "IndexError", warned |-> SedWarning(sed)]
            ELSE Trimmed(sed, got,
                         TrimMorphology(sky_coord, frame,
                                        Constrained(got.coadd, GetPixel(frame, sky_coord),
                                                    symmetric, monotonic, min_grad),
                                        got.bg_cutoff, thresh))
        Measured(seds) ==
            Detected(Flatten(seds), CoaddOrBuild(seds, observations, coadd, bg_cutoff))
    IN  Measured([i \in 1 .. Len(observations) |->
                     GetPsfSed(sky_coord, observations[i], frame)])

---------------------------------------------------------------------------
(* get_best_fit_seds *)

\* The matrix A without row i and column j.
Minor(A, i, j) ==
    LET n == Len(A)
        keep(k, x) == IF k < x THEN k ELSE k + 1
    IN  [r \in 1 .. n - 1 |-> [c \in 1 .. n - 1 |-> A[keep(r, i)][keep(c, j)]]]

\* The determinant, expanded along the first row.
RECURSIVE Det(_)
Det(A) ==
    IF Len(A) = 0 THEN One
    ELSE IF Len(A) = 1 THEN A[1][1]
    ELSE SumSeq([j \in 1 .. Len(A) |->
                    Mul(Mul(I(IF j % 2 = 1 THEN 1 ELSE -1), A[1][j]), Det(Minor(A, 1, j)))])

MatFinite(A) == \A r \in 1 .. Len(A) : \A c \in 1 .. Len(A[r]) : IsFinite(A[r][c])

\* np.linalg.inv: LinAlgError for a singular matrix; a matrix holding nan or
\* inf gives no error and a result without a finite entry.
LinalgInv(A) ==
    LET Inverted(det) ==
            IF det = Zero THEN [status |-> "LinAlgError"]
            ELSE [status |-> "ok",
                  inv |-> Array([r \in 1 .. Len(A) |-> Array([c \in 1 .. Len(A) |->
                              Div(Mul(I(IF (r + c) % 2 = 0 THEN 1 ELSE -1),
                                      Det(Minor(A, c, r))),
                                  det)])])]
    IN  IF ~MatFinite(A)
        THEN [status |-> "ok", inv |-> [r \in 1 .. Len(A) |-> [c \in 1 .. Len(A) |-> NaN]]]
        ELSE Inverted(Det(A))

\* np.dot of the flattened arrays a and b (same shape).
Dot(a, b) ==
    LET w == SetMax(Cols(a)) + 1
        h == SetMax(Rows(a)) + 1
    IN  SumSeq([k \in 1 .. h * w |->
                   LET p == <<(k - 1) \div w, (k - 1) % w>> IN Mul(a[p], b[p])])

\* seds = inv(morph . morph^T) . (morph . data^T): one SED per component.
GetBestFitSeds(morphs, images) ==
    LET K == Len(morphs)
        Solved(inverse, proj) ==
            IF inverse.status # "ok" THEN [status |-> inverse.status]
            ELSE [status |-> "ok",
                  seds |-> Array([k \in 1 .. K |-> Array([c \in 1 .. Len(images) |->
                               SumSeq([l \in 1 .. K |->
                                          Mul(inverse.inv[k][l], proj[l][c])])])])]
    IN  Solved(LinalgInv(Array([k \in 1 .. K |->
                                   Array([l \in 1 .. K |-> Dot(morphs[k], morphs[l])])])),
               Array([k \in 1 .. K |->
                         Array([c \in 1 .. Len(images) |-> Dot(morphs[k], images[c])])]))

---------------------------------------------------------------------------
(* init_multicomponent_source *)

\* The list as it is given.
Unsorted(s) == s

\* np.sort
RECURSIVE SortInsert(_, _)
SortInsert(v, s) ==
    IF s = <<>> THEN <<v>>
    ELSE IF Le(v, Head(s)) THEN <<v>> \o s
    ELSE <<Head(s)>> \o SortInsert(v, Tail(s))

RECURSIVE Sort(_)
Sort(s) == IF s = <<>> THEN <<>> ELSE SortInsert(Head(s), Sort(Tail(s)))

\* Box.extract_from for an image cube: the channels and pixels of the 3-D
\* box, 0 outside the cube.
ExtractFrom3(bbox, images) ==
    [c \in 1 .. bbox.stop[1] - bbox.start[1] |->
        LET ch == c + bbox.start[1]
            box2 == Box2(<<bbox.start[2], bbox.stop[2]>>, <<bbox.start[3], bbox.stop[3]>>)
        IN  IF ch \in 1 .. Len(images) THEN Array(ExtractFrom(box2, images[ch]))
            ELSE [p \in Idx(bbox.stop[2] - bbox.start[2], bbox.stop[3] - bbox.start[3]) |-> Zero]]

\* One layer with the pixels of mask set to those of v.
Masked(layer, mask, v) ==
    Array([p \in DOMAIN layer |-> IF p \in mask THEN v[p] ELSE layer[p]])

\* The loop of lines 300-306 from Python's k on: the pixels above the k-th
\* threshold are levelled in layer k - 1 and their excess goes to layer k.
RECURSIVE LayerLoop(_, _, _, _, _, _)
LayerLoop(k, morphs, last_thresh, morph, percentiles_, max_flux) ==
    IF k > Len(percentiles_) THEN morphs
    ELSE LET perc == percentiles_[k]
             flux_thresh == Div(Mul(perc, max_flux), I(100))
             mask_ == {p \in DOMAIN morph : Gt(morph[p], flux_thresh)}
             lower == [p \in DOMAIN morph |-> Sub(flux_thresh, last_thresh)]
             upper == [p \in DOMAIN morph |-> Sub(morph[p], flux_thresh)]
             next == [morphs EXCEPT ![k] = Masked(@, mask_, lower),
                                    ![k + 1] = Masked(@, mask_, upper)]
         IN  LayerLoop(k + 1, next, flux_thresh, morph, percentiles_, max_flux)

\* Lines 292-306: the K layers before they are normalized.
SplitLayers(morph, flux_percentiles) ==
    LET K == Len(flux_percentiles) + 1
        zeros == [p \in DOMAIN morph |-> Zero]
        morphs == [k \in 1 .. K |-> IF k = 1 THEN morph ELSE zeros]
    IN  Array(LayerLoop(1, morphs, Zero, morph, Sort(flux_percentiles), ArrMax(morph)))

---------------------------------------------------------------------------

\* morphs[k] /= morphs[k].max()
NormalizeLayer(layer) ==
    LET peak == ArrMax(layer)
    IN  Array([p \in DOMAIN layer |-> Div(layer[p], peak)])

AllNonPositive(a) == \A p \in DOMAIN a : Le(a[p], Zero)

\* The whole function.  layers holds the K layers as built, morphs the layers
\* returned, morph the single-component morphology they were split from.
InitMulticomponentSource(sky_coord, frame, observations, coadd, bg_cutoff, flux_percentiles, thresh, symmetric, monotonic, min_grad) ==
    LET loc == {i \in 1 .. Len(observations) : observations[i].kind = "Observation"}
        percentiles == IF IsNone(flux_percentiles) THEN <<I(25)>> ELSE flux_percentiles.v
        K == Len(percentiles) + 1
        LayerWarning(layers) ==
            IF \E k \in 1 .. K : AllNonPositive(layers[k]) THEN {"layer"} ELSE {}
        SedWarning(seds) ==
            IF \E k \in 1 .. K : \A c \in 1 .. Len(seds[k]) : Le(seds[k][c], Zero)
            THEN {"layersed"} ELSE {}
        Fitted(ext, layers, morphs, fit) ==
            IF fit.status # "ok"
            THEN [status |-> fit.status, warned |-> ext.warned \cup LayerWarning(layers),
                  caller_coadd |-> ext.caller_coadd]
            ELSE [status |-> "ok",
                  seds |-> fit.seds,
                  morphs |-> morphs,
                  bbox |-> ext.bbox,
                  layers |-> layers,
                  morph |-> ext.morph,
                  warned |-> ext.warned \cup LayerWarning(layers) \cup SedWarning(fit.seds),
                  caller_coadd |-> ext.caller_coadd]
        Normalized(ext, layers, morphs) ==
            Fitted(ext, layers, morphs,
                   GetBestFitSeds(morphs,
                                  ExtractFrom3(ext.bbox, observations[SetMin(loc)].images)))
        Split(ext, layers) ==
            Normalized(ext, layers, Array([k \in 1 .. K |-> NormalizeLayer(layers[k])]))
        Extended(ext) ==
            IF ext.status # "ok" THEN ext
            ELSE Split(ext, SplitLayers(ext.morph, percentiles))
    IN  IF loc = {} THEN [status |-> "IndexError", warned |-> {}]
        ELSE Extended(InitExtendedSource(sky_coord, frame, observations, coadd, bg_cutoff,
                                         thresh, symmetric, monotonic, min_grad))

---------------------------------------------------------------------------

(* StarletSource.__init__: the threshold array of the sparsity constraint.  *)
(* The wavelet transform (scarlet.wavelet) enters by the shape of its       *)
(* coefficients, (1, lvl, n1, n2) for an (n1, n2) image, and by its norm,   *)
(* one number per scale; the leading axis of length 1 is left out.          *)

\* thresh = starlet_thresh * np.sqrt(np.sum((sed*noise) ** 2))
NoiseThreshold(sed, noise, starlet_thresh) ==
    SurdMul(SurdSqrt(SumSeq([c \in 1 .. Len(sed) |->
                                Mul(Mul(sed[c], noise[c]), Mul(sed[c], noise[c]))])),
            starlet_thresh)

\* thresh_array = np.zeros(morph.shape) + thresh
FillThresh(lvl, pixels, thresh) == [l \in 1 .. lvl |-> [p \in pixels |-> thresh]]

\* thresh_array * np.array([starlet_norm])[..., np.newaxis, np.newaxis]
ScaleByNorm(thresh_array, starlet_norm) ==
    [l \in DOMAIN thresh_array |->
        [p \in DOMAIN thresh_array[l] |-> SurdMul(thresh_array[l][p], starlet_norm[l])]]

\* The first scale set to 0 instead of the last.
ZeroFirstScale(thresh_array) ==
    [thresh_array EXCEPT ![1] = [p \in DOMAIN thresh_array[1] |-> SurdOf(Zero)]]

\* thresh_array[:,-1,:,:] = 0
ZeroLastScale(thresh_array) ==
    [thresh_array EXCEPT
        ![Len(thresh_array)] = [p \in DOMAIN thresh_array[Len(thresh_array)] |-> SurdOf(Zero)]]

\* The constructor up to the sparsity constraint.  noise is the per-channel
\* noise level of the observations, concatenated as the SED is; lvl and
\* starlet_norm are the number of scales and the norm of the transform of
\* the initial morphology.
StarletSource(frame, sky_coord, observations, coadd, bg_cutoff, thresh, starlet_thresh, min_grad, noise, lvl, starlet_norm) ==
    LET Built(init, thresh_array) ==
            [status |-> "ok",
             sed |-> init.sed,
             bbox |-> init.bbox,
             shape |-> <<lvl, DOMAIN init.morph>>,
             thresh_array |-> thresh_array]
        Initialized(init) ==
            IF init.status # "ok" THEN [status |-> init.status]
            ELSE Built(init,
                       ZeroLastScale(
                           ScaleByNorm(FillThresh(lvl, DOMAIN init.morph,
                                                  NoiseThreshold(init.sed, noise,
                                                                 starlet_thresh)),
                                       starlet_norm)))
    IN  Initialized(InitExtendedSource(sky_coord, frame, observations, coadd, bg_cutoff,
                                       thresh, TRUE, TRUE, min_grad))

---------------------------------------------------------------------------

(* PointSource.__init__ *)

\* np.round of a float: the nearest integer, a half going to the even one.
NpRound(x) ==
    LET lower == (2 * x.n) \div (2 * x.d)
    IN  IF 2 * (x.n - lower * x.d) < x.d THEN lower
        ELSE IF 2 * (x.n - lower * x.d) > x.d THEN lower + 1
        ELSE IF lower % 2 = 0 THEN lower ELSE lower + 1

\* psf.shape, read off the image of the PSF model.
PsfShape(psf) ==
    <<Len(psf.image), SetMax(Rows(psf.image[1])) + 1, SetMax(Cols(psf.image[1])) + 1>>

\* "define bbox": the box around the rounded center.
PointSourceBox(C, pixel_center, shape) ==
    Box3(<<0, C>>,
         <<pixel_center[1] - shape[2] \div 2, pixel_center[1] + shape[2] \div 2>>,
         <<pixel_center[2] - shape[3] \div 2, pixel_center[2] + shape[3] \div 2>>)

\* The constructor.  center is the float array of the center parameter.
PointSource(model_frame, sky_coord, observations) ==
    LET Boxed(sed, center, pixel_center) ==
            [status |-> "ok",
             sed |-> sed,
             center |-> center,
             pixel_center |-> pixel_center,
             bbox |-> PointSourceBox(model_frame.C, pixel_center,
                                     PsfShape(model_frame.psf.v)),
             warned |-> IF \A c \in 1 .. Len(sed) : Le(sed[c], Zero) THEN {"sed"} ELSE {}]
        Centered(sed, center) ==
            Boxed(sed, center, <<NpRound(center[1]), NpRound(center[2])>>)
        Measured(sed, pixel) ==
            IF IsNone(model_frame.psf) THEN [status |-> "AttributeError"]
            ELSE Centered(sed, <<I(pixel[1]), I(pixel[2])>>)
    IN  Measured(Flatten([i \in 1 .. Len(observations) |->
                             GetPsfSed(sky_coord, observations[i], model_frame)]),
                 GetPixel(model_frame, sky_coord))

---------------------------------------------------------------------------

(* Parameter (parameter.py).  Values that the model only passes along      *)
(* (names, step rules, priors, option values of the constructors) are      *)
(* tokens: strings spelled as the Python value.                            *)

\* The attributes Parameter.__new__ sets on the new array.
ParameterAttributes == {"prior", "constraint", "step", "converged", "std", "fixed"}

\* The defaults of the signature of __new__.
ParameterDefault(a) ==
    IF a \in {"prior", "constraint", "std"} THEN None
    ELSE IF a = "step" THEN "0"
    ELSE FALSE

\* Parameter(array, **kwargs): the keywords of the signature become
\* attributes; any other keyword lands in **kwargs, which __new__ never reads.
ParameterNew(array, kwargs) ==
    [array |-> array,
     attrs |-> [a \in ParameterAttributes |->
                   IF a \in DOMAIN kwargs THEN kwargs[a] ELSE ParameterDefault(a)]]

\* __array_finalize__(self, obj) for obj a Parameter: the attributes of the
\* array derived from obj.  obj has no attribute step_size.
ArrayFinalize(obj, array) ==
    [array |-> array,
     attrs |-> [a \in ParameterAttributes |->
                   IF a = "step"
                   THEN (IF "step_size" \in DOMAIN obj.attrs THEN obj.attrs["step_size"]
                         ELSE "0")
                   ELSE obj.attrs[a]]]

---------------------------------------------------------------------------
(* The source constructors: how the arguments are bound and which          *)
(* parameters the source gets.  The initial values come from the functions *)
(* above and are named here by a token.                                    *)

\* Python's truth value of a token.
Truthy(v) == v \notin {"False", "None", "0"}

\* monotonic left as it was passed.
KeepMonotonic(monotonic) == monotonic

\* backwards compatibility: monotonic was boolean
MapMonotonic(monotonic) ==
    IF monotonic = "True" THEN "angle"
    ELSE IF monotonic = "False" THEN "None"
    ELSE monotonic

Positivity == <<"PositivityConstraint">>

\* The chain with the center-on constraint put last.
CenterOnLast(monotonic, symmetric, min_grad, center_on) ==
    (IF monotonic \notin {"None", "False"}
     THEN << <<"MonotonicityConstraint", IF monotonic = "True" THEN "angle" ELSE monotonic,
               min_grad>> >>
     ELSE <<>>)
    \o (IF Truthy(symmetric) THEN << <<"SymmetryConstraint">> >> ELSE <<>>)
    \o <<Positivity>>
    \o << <<"NormalizationConstraint", "max">> >>
    \o (IF center_on THEN << <<"CenterOnConstraint">> >> ELSE <<>>)

\* The list `constraints` of ExtendedSource.__init__ or, with center_on, of
\* MultiComponentSource.__init__.
MorphConstraints(monotonic, symmetric, min_grad, center_on) ==
    (IF MapMonotonic(monotonic) # "None"
     THEN << <<"MonotonicityConstraint", MapMonotonic(monotonic), min_grad>> >>
     ELSE <<>>)
    \o (IF Truthy(symmetric) THEN << <<"SymmetryConstraint">> >> ELSE <<>>)
    \o <<Positivity>>
    \o (IF center_on THEN << <<"CenterOnConstraint">> >> ELSE <<>>)
    \o << <<"NormalizationConstraint", "max">> >>

ShiftParameter(shifting) ==
    IF Truthy(shifting)
    THEN <<ParameterNew("shift", [name |-> "shift", step |-> "1e-1"])>>
    ELSE <<>>

RandomSourceInit(b) ==
    <<ParameterNew("sed", [name |-> "sed", step |-> "relative_step",
                           constraint |-> Some(<<Positivity>>)]),
      ParameterNew("morph", [name |-> "morph", step |-> "relative_step",
                             constraint |-> Some(<<Positivity>>)])>>

PointSourceInit(b) ==
    <<ParameterNew("sed", [name |-> "sed", step |-> "relative_step(1e-2)",
                           constraint |-> Some(<<Positivity>>)]),
      ParameterNew("center", [name |-> "center", step |-> "1e-1"])>>

StarletSourceInit(b) ==
    <<ParameterNew("sed", [name |-> "sed", step |-> "relative_step(1e-2)",
                           constraint |-> Some(<<Positivity>>)]),
      ParameterNew("morph", [name |-> "morph", step |-> "1e-2",
                             constraint |-> Some(<< <<"L0Constraint", "thresh_array">>,
                                                    Positivity >>)])>>

ExtendedSourceInit(b) ==
    <<ParameterNew("sed", [name |-> "sed", step |-> "relative_step(1e-2)",
                           constraint |-> Some(<<Positivity>>)]),
      ParameterNew("morph", [name |-> "morph", step |-> "1e-2",
                             constraint |-> Some(MorphConstraints(b["monotonic"],
                                                     b["symmetric"], b["min_grad"],
                                                     FALSE))])>>
    \o ShiftParameter(b["shifting"])

\* One component's parameters; every component has them.
MultiComponentSourceInit(b) ==
    <<ParameterNew("sed", [name |-> "sed", step |-> "relative_step(1e-1)",
                           constraint |-> Some(<<Positivity>>)]),
      ParameterNew("morph", [name |-> "morph", step |-> "1e-2",
                             constraint |-> Some(MorphConstraints(b["monotonic"],
                                                     b["symmetric"], b["min_grad"],
                                                     TRUE))])>>
    \o ShiftParameter(b["shifting"])

\* The signatures of the constructors: the parameters in order, and the
\* defaults of those that have one.
RandomSourceParams == <<"model_frame", "observation">>
RandomSourceDefaults == [observation |-> "None"]

PointSourceParams == <<"model_frame", "sky_coord", "observations">>
PointSourceDefaults == <<>>

StarletSourceParams ==
    <<"frame", "sky_coord", "observations", "coadd", "bg_cutoff", "thresh",
      "starlet_thresh", "min_grad">>
StarletSourceDefaults ==
    [coadd |-> "None", bg_cutoff |-> "None", thresh |-> "1.0", starlet_thresh |-> "5",
     min_grad |-> "0"]

ExtendedSourceParams ==
    <<"model_frame", "sky_coord", "observations", "coadd", "bg_cutoff", "thresh",
      "monotonic", "symmetric", "shifting", "min_grad">>
ExtendedSourceDefaults ==
    [coadd |-> "None", bg_cutoff |-> "None", thresh |-> "1.0", monotonic |-> "flat",
     symmetric |-> "False", shifting |-> "False", min_grad |-> "0.2"]

MultiComponentSourceParams ==
    <<"model_frame", "sky_coord", "observations", "thresh", "coadd", "bg_cutoff",
      "flux_percentiles", "symmetric", "monotonic", "shifting", "min_grad">>
MultiComponentSourceDefaults ==
    [thresh |-> "1.0", coadd |-> "None", bg_cutoff |-> "None",
     flux_percentiles |-> "None", symmetric |-> "False", monotonic |-> "flat",
     shifting |-> "False", min_grad |-> "0.2"]

\* Python's binding of positional arguments: the i-th argument goes to the
\* i-th parameter, the rest take their defaults; too many arguments are a
\* TypeError.
Bind(params, defaults, positional) ==
    IF Len(positional) > Len(params) THEN [status |-> "TypeError"]
    ELSE [status |-> "ok",
          bound |-> [p \in {params[i] : i \in 1 .. Len(params)} |->
                        LET i == CHOOSE j \in 1 .. Len(params) : params[j] = p
                        IN  IF i <= Len(positional) THEN positional[i] ELSE defaults[p]]]

\* The source a constructor builds from its bound arguments.
Construct(class, binding) ==
    IF binding.status # "ok" THEN binding
    ELSE [status |-> "ok",
          class |-> class,
          bound |-> binding.bound,
          parameters |->
              IF class = "RandomSource" THEN RandomSourceInit(binding.bound)
              ELSE IF class = "PointSource" THEN PointSourceInit(binding.bound)
              ELSE IF class = "StarletSource" THEN StarletSourceInit(binding.bound)
              ELSE IF class = "ExtendedSource" THEN ExtendedSourceInit(binding.bound)
              ELSE MultiComponentSourceInit(binding.bound)]

---------------------------------------------------------------------------
(* The factories: __init__ captures the configuration in self.kwargs,      *)
(* __call__ hands it to the constructor after the caller's arguments.      *)

\* Random(observation)(*args): RandomSource(*args, self.kwargs)
RandomCall(kwargs, call) ==
    Construct("RandomSource",
              Bind(RandomSourceParams, RandomSourceDefaults, call \o <<kwargs>>))

\* Point()(*args): PointSource(*args)
PointCall(call) ==
    Construct("PointSource", Bind(PointSourceParams, PointSourceDefaults, call))

\* Starlets.__init__
StarletsKwargs(c) == <<c.thresh, c.starlet_thresh, c.min_grad>>

\* StarletSource(*args, coadd, bg_cutoff, *self.kwargs)
StarletsCall(kwargs, call, coadd, bg_cutoff) ==
    Construct("StarletSource",
              Bind(StarletSourceParams, StarletSourceDefaults,
                   call \o <<coadd, bg_cutoff>> \o kwargs))

\* Extended.__init__
ExtendedKwargs(c) == <<c.thresh, c.monotonic, c.symmetric, c.shifting, c.min_grad>>

\* ExtendedSource(*args, coadd, bg_cutoff, *self.kwargs)
ExtendedCall(kwargs, call, coadd, bg_cutoff) ==
    Construct("ExtendedSource",
              Bind(ExtendedSourceParams, ExtendedSourceDefaults,
                   call \o <<coadd, bg_cutoff>> \o kwargs))

\* MultiComponent.__init__
MultiComponentKwargs(c) ==
    <<c.thresh, c.flux_percentiles, c.monotonic, c.symmetric, c.shifting, c.min_grad>>

\* MultiComponentSource(*args, coadd, bg_cutoff, *self.kwargs)
MultiComponentCall(kwargs, call, coadd, bg_cutoff) ==
    Construct("MultiComponentSource",
              Bind(MultiComponentSourceParams, MultiComponentSourceDefaults,
                   call \o <<coadd, bg_cutoff>> \o kwargs))

---------------------------------------------------------------------------

(* MultiComponentSource.__init__ with its values.  A parameter object is    *)
(* known by when it was made: the shift parameter, if any, is object 0, the *)
(* components refer to it by that number.                                   *)

\* if shifting: shift = Parameter(center - pixel_center, ...) else None
SharedShift(shifting, center, pixel_center) ==
    IF Truthy(shifting)
    THEN <<ParameterNew(<<Sub(center[1], I(pixel_center[1])),
                          Sub(center[2], I(pixel_center[2]))>>,
                        [name |-> "shift", step |-> "1e-1"])>>
    ELSE <<>>

\* The loop over the components: one sed and one morph Parameter each, the
\* same chain, box and shift for all.
FactorizedComponents(seds, morphs, bbox, pixel_center, shifts, morph_constraint) ==
    [k \in 1 .. Len(seds) |->
        [sed |-> ParameterNew(seds[k], [name |-> "sed", step |-> "relative_step(1e-1)",
                                        constraint |-> Some(<<Positivity>>)]),
         morph |-> ParameterNew(morphs[k], [name |-> "morph", step |-> "1e-2",
                                            constraint |-> Some(morph_constraint)]),
         bbox |-> bbox,
         pixel_center |-> pixel_center,
         shift |-> IF shifts = <<>> THEN None ELSE Some(0)]]

\* The constructor: the composite of the components.
MultiComponentSource(model_frame, sky_coord, observations, thresh, coadd, bg_cutoff, flux_percentiles, symmetric, monotonic, shifting, min_grad) ==
    LET Tree(init, pixel_center, shifts) ==
            IF init.status # "ok" THEN [status |-> init.status]
            ELSE [status |-> "ok",
                  shifts |-> shifts,
                  morphs |-> init.morphs,
                  bbox |-> init.bbox,
                  components |->
                      FactorizedComponents(init.seds, init.morphs, init.bbox,
                                           pixel_center, shifts,
                                           MorphConstraints(monotonic, symmetric,
                                                            min_grad, TRUE))]
        Shifted(center, pixel_center) ==
            Tree(InitMulticomponentSource(sky_coord, model_frame, observations, None,
                                          bg_cutoff, flux_percentiles, thresh, TRUE, TRUE,
                                          min_grad),
                 pixel_center, SharedShift(shifting, center, pixel_center))
        Centered(center) == Shifted(center, <<NpRound(center[1]), NpRound(center[2])>>)
        Located(pixel) == Centered(<<I(pixel[1]), I(pixel[2])>>)
    IN  Located(GetPixel(model_frame, sky_coord))

---------------------------------------------------------------------------

(* Inputs.  Images are Ny x Nx; an image of the input family is a flat      *)
(* background with two pixels set (the second set last).                    *)

Ny == 3
Nx == 5
MorphNy == 3
MorphNx == 19
MaxC == 2

Image(h, w, bg, pa, va, pb, vb) ==
    [p \in Idx(h, w) |-> IF p = pb THEN vb ELSE IF p = pa THEN va ELSE bg]

\* Morphologies for trim_morphology: MorphNy x MorphNx, the center near a
\* corner or in the middle.
MorphMiddle == <<MorphNy \div 2, MorphNx \div 2>>
MorphCenters == {<<1, 1>>, MorphMiddle}

MorphSpots == {<<0, 0>>, <<1, 1>>, MorphMiddle, <<MorphMiddle[1], MorphMiddle[2] + 1>>,
               <<MorphNy - 1, MorphNx - 1>>}

Morphs ==
    {Image(MorphNy, MorphNx, bg, pa, va, pb, vb) :
        bg \in {Zero, One}, pa \in MorphSpots, va \in {I(2), I(4)},
        pb \in MorphSpots, vb \in {I(-1), I(3)}}

\* Observed images are Ny x Nx; a source is looked for in the middle or in
\* the corner.
ImageCenter == <<Ny \div 2, Nx \div 2>>
Corner == <<0, 0>>
Centers == {Corner, ImageCenter}

Cutoffs == {SurdOf(R(1, 2)), SurdOf(R(3, 2))}
Threshs == {One, I(3), I(-1)}

MaxObs == 2

\* Point-spread functions: two pixels per channel, the peak last.
Psf(peaks) ==
    [image |-> [c \in 1 .. Len(peaks) |->
                   [p \in Idx(1, 2) |->
                       IF p = <<0, 0>> THEN Mul(peaks[c], R(1, 2)) ELSE peaks[c]]]]

PeakPatterns == {"unit", "double", "rising"}

Peaks(pattern, C) ==
    [c \in 1 .. C |->
        IF pattern = "unit" THEN One
        ELSE IF pattern = "double" THEN (IF c = 1 THEN I(2) ELSE R(1, 2))
        ELSE I(c + 2)]

Psfs(C) == {None} \cup {Some(Psf(Peaks(k, C))) : k \in PeakPatterns}

Frames(C) == {[C |-> C, psf |-> psf] : psf \in Psfs(C)}

\* The scene of an observation: a source of two or three pixels whose
\* brightness follows a colour pattern over the channels.
Scenes == {"peak", "offpeak", "faint", "dark"}

SceneImage(scene, gain) ==
    IF scene = "peak"
    THEN [Image(Ny, Nx, Zero, <<ImageCenter[1], ImageCenter[2] + 1>>, Mul(I(2), gain),
                ImageCenter, Mul(I(4), gain))
             EXCEPT ![<<ImageCenter[1], ImageCenter[2] - 1>>] = gain]
    ELSE IF scene = "offpeak"
    THEN Image(Ny, Nx, Zero, <<ImageCenter[1], ImageCenter[2] + 1>>, Mul(I(4), gain),
               ImageCenter, Mul(I(2), gain))
    ELSE IF scene = "faint"
    THEN Image(Ny, Nx, Zero, Corner, Mul(R(1, 4), gain), ImageCenter, Mul(R(1, 8), gain))
    ELSE IF scene = "wide"
    THEN [p \in Idx(Ny, Nx) |->
             IF p[1] # ImageCenter[1] \/ Abs(p[2] - ImageCenter[2]) > 2 THEN Zero
             ELSE Div(Mul(I(4), gain), I(Pow2(Abs(p[2] - ImageCenter[2]))))]
    ELSE Image(Ny, Nx, Zero, Corner, Zero, ImageCenter, Neg(gain))

Colours == {"flat", "red", "dropout"}

Gain(colour, c) ==
    IF colour = "flat" THEN One
    ELSE IF colour = "red" THEN I(Pow2(c - 1))
    ELSE (IF c = 1 THEN I(-1) ELSE One)

WeightPatterns == {"unit", "deep", "masked"}

\* Inverse-variance weights; "masked" has one pixel of weight 0 per channel.
Weights(pattern, C) ==
    [c \in 1 .. C |->
        [p \in Idx(Ny, Nx) |->
            IF pattern = "unit" THEN One
            ELSE IF pattern = "deep" THEN I(4)
            ELSE (IF p = <<0, 0>> THEN Zero ELSE R(1, 4))]]

Observation(kind, C, scene, colour, weights, psf) ==
    [kind |-> kind,
     frame |-> [C |-> C, psf |-> psf],
     images |-> [c \in 1 .. C |-> SceneImage(scene, Gain(colour, c))],
     weights |-> weights]

\* Observations for the SED estimator.
SedObservations(C) ==
    {Observation("Observation", C, scene, colour, None, psf) :
        scene \in Scenes, colour \in Colours, psf \in Psfs(C)}

\* Lists of one to MaxObs observations for the coadd builder.
CoaddObservations(C) ==
    {Observation(kind, C, scene, "flat", None, None) :
        kind \in {"Observation", "LowResObservation"}, scene \in {"peak", "faint"}}

CoaddLists(C) ==
    UNION {[1 .. n -> CoaddObservations(C)] : n \in 1 .. MaxObs}

SedPatterns == {"rising", "half", "firstzero", "lastneg", "nonpos"}

SedOf(pattern, i, c, n, C) ==
    IF pattern = "rising" THEN I(i + c)
    ELSE IF pattern = "half" THEN R(1, 2)
    ELSE IF pattern = "firstzero" THEN (IF i = 1 /\ c = 1 THEN Zero ELSE One)
    ELSE IF pattern = "lastneg" THEN (IF i = n /\ c = C THEN I(-1) ELSE I(2))
    ELSE (IF c = 1 THEN Zero ELSE I(-1))

RmsPatterns == {"unit", "rising", "lastzero", "firstneg"}

RmsOf(pattern, i, c, n, C) ==
    IF pattern = "unit" THEN One
    ELSE IF pattern = "rising" THEN R(c, 2)
    ELSE IF pattern = "lastzero" THEN (IF i = n /\ c = C THEN Zero ELSE One)
    ELSE (IF i = 1 /\ c = 1 THEN I(-2) ELSE One)

\* The same field observed n times, in colours that differ by observation.
FieldColour(i) == IF i = 1 THEN "flat" ELSE "red"

Field(n, C, scene, wp) ==
    [i \in 1 .. n |->
        Observation("Observation", C, scene, FieldColour(i),
                    IF wp = "none" THEN None ELSE Some(Weights(wp, C)), None)]

Fields(C) ==
    {Field(n, C, scene, wp) :
        n \in 1 .. MaxObs, scene \in Scenes, wp \in {"none", "unit", "masked"}}

\* What the caller passes as coadd and bg_cutoff.
CoaddModes == {"build", "given", "nocutoff"}

\* A precomputed coadd: the first channel of the first observation.
CoaddArg(mode, observation) ==
    IF mode = "build" THEN None ELSE Some(observation.images[1])

CutoffArg(mode) == IF mode = "given" THEN Some(SurdOf(R(1, 2))) ELSE None

---------------------------------------------------------------------------
(* The calls *)

Init ==
    /\ fn = "none"
    /\ args = <<>>
    /\ ret = <<>>

Return ==
    /\ fn # "none"
    /\ fn' = "none"
    /\ args' = <<>>
    /\ ret' = <<>>

CallTrimMorphology ==
    \E sky_coord \in MorphCenters, C \in 1 .. MaxC, morph \in Morphs,
       bg_cutoff \in Cutoffs, thresh \in Threshs :
        /\ fn = "none"
        /\ fn' = "trim_morphology"
        /\ args' = [sky_coord |-> sky_coord, frame |-> [C |-> C], morph |-> morph,
                    bg_cutoff |-> bg_cutoff, thresh |-> thresh]
        /\ ret' = TrimMorphology(sky_coord, [C |-> C], morph, bg_cutoff, thresh)

CallGetPixelSed ==
    \E C \in 1 .. MaxC, sky_coord \in Centers :
        \E observation \in SedObservations(C) :
            /\ fn = "none"
            /\ fn' = "get_pixel_sed"
            /\ args' = [sky_coord |-> sky_coord, observation |-> observation]
            /\ ret' = [sed |-> GetPixelSed(sky_coord, observation)]

CallGetPsfSed ==
    \E C \in 1 .. MaxC, sky_coord \in Centers :
        \E observation \in SedObservations(C), frame \in Frames(C) :
            /\ fn = "none"
            /\ fn' = "get_psf_sed"
            /\ args' = [sky_coord |-> sky_coord, observation |-> observation,
                        frame |-> frame]
            /\ ret' = [sed |-> GetPsfSed(sky_coord, observation, frame)]

CallBuildSedCoadd ==
    \E C \in 1 .. MaxC, sp \in SedPatterns, rp \in RmsPatterns :
        \E observations \in CoaddLists(C) :
            LET n == Len(observations)
                seds == [i \in 1 .. n |-> [c \in 1 .. C |-> SedOf(sp, i, c, n, C)]]
                bg_rmses == [i \in 1 .. n |->
                                [c \in 1 .. C |-> SurdOf(RmsOf(rp, i, c, n, C))]]
            IN  /\ fn = "none"
                /\ fn' = "build_sed_coadd"
                /\ args' = [seds |-> seds, bg_rmses |-> bg_rmses,
                            observations |-> observations]
                /\ ret' = BuildSedCoadd(seds, bg_rmses, observations)

SpecSed == Init /\ [][CallGetPixelSed \/ CallGetPsfSed \/ Return]_vars

SpecCoadd == Init /\ [][CallBuildSedCoadd \/ Return]_vars

CallInitExtendedSource ==
    \E C \in 1 .. MaxC, sky_coord \in Centers, mode \in CoaddModes,
       thresh \in {One, I(8)}, symmetric \in BOOLEAN, monotonic \in BOOLEAN :
        \E observations \in Fields(C) :
            LET frame == [C |-> C * Len(observations), psf |-> None]
                coadd == CoaddArg(mode, observations[1])
                bg_cutoff == CutoffArg(mode)
            IN  /\ fn = "none"
                /\ fn' = "init_extended_source"
                /\ args' = [sky_coord |-> sky_coord, frame |-> frame,
                            observations |-> observations, coadd |-> coadd,
                            bg_cutoff |-> bg_cutoff, thresh |-> thresh,
                            symmetric |-> symmetric, monotonic |-> monotonic,
                            min_grad |-> R(1, 5)]
                /\ ret' = InitExtendedSource(sky_coord, frame, observations, coadd,
                                             bg_cutoff, thresh, symmetric, monotonic,
                                             R(1, 5))

SpecExtended == Init /\ [][CallInitExtendedSource \/ Return]_vars

\* Observations with weights for the multi-component splitter.
MultiFields(C) ==
    {Field(n, C, scene, "unit") : n \in 1 .. MaxObs, scene \in Scenes}

\* Percentile lists: the default, one level, the top level, two levels out of
\* order, and none.
FluxPercentiles ==
    {None, Some(<<I(50)>>), Some(<<I(100)>>), Some(<<I(75), I(25)>>), Some(<<>>)}

CallInitMulticomponentSource ==
    \E C \in {MaxC}, sky_coord \in Centers, mode \in {"build", "given"},
       flux_percentiles \in FluxPercentiles,
       symmetric \in BOOLEAN, monotonic \in BOOLEAN :
        \E observations \in MultiFields(C) :
            LET frame == [C |-> C * Len(observations), psf |-> None]
                coadd == CoaddArg(mode, observations[1])
                bg_cutoff == CutoffArg(mode)
            IN  /\ fn = "none"
                /\ fn' = "init_multicomponent_source"
                /\ args' = [sky_coord |-> sky_coord, frame |-> frame,
                            observations |-> observations, coadd |-> coadd,
                            bg_cutoff |-> bg_cutoff,
                            flux_percentiles |-> flux_percentiles, thresh |-> One,
                            symmetric |-> symmetric, monotonic |-> monotonic,
                            min_grad |-> R(1, 5)]
                /\ ret' = InitMulticomponentSource(sky_coord, frame, observations, coadd,
                                                   bg_cutoff, flux_percentiles, One,
                                                   symmetric, monotonic, R(1, 5))

SpecMulti == Init /\ [][CallInitMulticomponentSource \/ Return]_vars

SpecInit ==
    Init /\ [][CallInitExtendedSource \/ CallInitMulticomponentSource \/ Return]_vars

\* The option values a caller may pass, as tokens.
ThreshTokens == {"1.0", "2.0"}
MonotonicTokens == {"flat", "angle", "nearest", "None", "True", "False"}
BoolTokens == {"True", "False"}
MinGradTokens == {"0.2", "0"}
CoaddTokens == {"None", "coadd"}
CutoffTokens == {"None", "0.5"}
PercentileTokens == {"None", "[25]"}
StarletThreshTokens == {"5", "3"}

\* What every factory is called with.
CallArgs == <<"frame", "sky_coord", "observations">>

CallRandom ==
    \E observation \in {"None", "observation"} :
        /\ fn = "none"
        /\ fn' = "Random"
        /\ args' = [captured |-> [observation |-> observation], call |-> CallArgs]
        /\ ret' = RandomCall(observation, CallArgs)

CallPoint ==
    /\ fn = "none"
    /\ fn' = "Point"
    /\ args' = [captured |-> <<>>, call |-> CallArgs]
    /\ ret' = PointCall(CallArgs)

CallStarlets ==
    \E thresh \in ThreshTokens, starlet_thresh \in StarletThreshTokens,
       min_grad \in MinGradTokens, coadd \in CoaddTokens, bg_cutoff \in CutoffTokens :
        LET captured == [thresh |-> thresh, starlet_thresh |-> starlet_thresh,
                         min_grad |-> min_grad]
        IN  /\ fn = "none"
            /\ fn' = "Starlets"
            /\ args' = [captured |-> captured, call |-> CallArgs, coadd |-> coadd,
                        bg_cutoff |-> bg_cutoff]
            /\ ret' = StarletsCall(StarletsKwargs(captured), CallArgs, coadd, bg_cutoff)

CallExtended ==
    \E thresh \in ThreshTokens, monotonic \in MonotonicTokens, symmetric \in BoolTokens,
       shifting \in BoolTokens, min_grad \in MinGradTokens, coadd \in CoaddTokens,
       bg_cutoff \in CutoffTokens :
        LET captured == [thresh |-> thresh, monotonic |-> monotonic,
                         symmetric |-> symmetric, shifting |-> shifting,
                         min_grad |-> min_grad]
        IN  /\ fn = "none"
            /\ fn' = "Extended"
            /\ args' = [captured |-> captured, call |-> CallArgs, coadd |-> coadd,
                        bg_cutoff |-> bg_cutoff]
            /\ ret' = ExtendedCall(ExtendedKwargs(captured), CallArgs, coadd, bg_cutoff)

CallMultiComponent ==
    \E thresh \in ThreshTokens, flux_percentiles \in PercentileTokens,
       monotonic \in MonotonicTokens, symmetric \in BoolTokens,
       shifting \in BoolTokens, min_grad \in MinGradTokens, coadd \in CoaddTokens,
       bg_cutoff \in CutoffTokens :
        LET captured == [thresh |-> thresh, flux_percentiles |-> flux_percentiles,
                         monotonic |-> monotonic, symmetric |-> symmetric,
                         shifting |-> shifting, min_grad |-> min_grad]
        IN  /\ fn = "none"
            /\ fn' = "MultiComponent"
            /\ args' = [captured |-> captured, call |-> CallArgs, coadd |-> coadd,
                        bg_cutoff |-> bg_cutoff]
            /\ ret' = MultiComponentCall(MultiComponentKwargs(captured), CallArgs, coadd,
                                         bg_cutoff)

SpecFactory ==
    Init /\ [][CallRandom \/ CallPoint \/ CallStarlets \/ CallExtended
               \/ CallMultiComponent \/ Return]_vars

\* ExtendedSource(model_frame, sky_coord, observations, coadd, bg_cutoff,
\* thresh, monotonic, symmetric, shifting, min_grad), called directly.
CallExtendedSource ==
    \E thresh \in ThreshTokens, monotonic \in MonotonicTokens, symmetric \in BoolTokens,
       shifting \in BoolTokens, min_grad \in MinGradTokens, coadd \in CoaddTokens,
       bg_cutoff \in CutoffTokens :
        LET positional == CallArgs \o <<coadd, bg_cutoff, thresh, monotonic, symmetric,
                                        shifting, min_grad>>
        IN  /\ fn = "none"
            /\ fn' = "ExtendedSource"
            /\ args' = [coadd |-> coadd, bg_cutoff |-> bg_cutoff, thresh |-> thresh,
                        monotonic |-> monotonic, symmetric |-> symmetric,
                        shifting |-> shifting, min_grad |-> min_grad]
            /\ ret' = Construct("ExtendedSource",
                                Bind(ExtendedSourceParams, ExtendedSourceDefaults,
                                     positional))

SpecExtendedSource == Init /\ [][CallExtendedSource \/ Return]_vars

\* The metadata a builder may give a Parameter.
ParameterNames == {"sed", "morph", "center", "shift"}
ParameterConstraints ==
    {None, Some(<<Positivity>>), Some(MorphConstraints("flat", "True", "0.2", FALSE))}
ParameterSteps == {"0", "1e-1", "1e-2", "relative_step"}
ParameterPriors == {None, Some("prior")}
ParameterStds == {None, Some("std")}

\* Parameter(array, name=..., constraint=..., step=..., fixed=...), with
\* prior, converged and std given or left out.
CallParameter ==
    \E name \in ParameterNames, constraint \in ParameterConstraints,
       step \in ParameterSteps, fixed \in BOOLEAN, prior \in ParameterPriors,
       std \in ParameterStds, converged \in BOOLEAN,
       given \in SUBSET {"prior", "converged", "std"} :
        LET kwargs == [k \in {"name", "constraint", "step", "fixed"} \cup given |->
                          IF k = "name" THEN name
                          ELSE IF k = "constraint" THEN constraint
                          ELSE IF k = "step" THEN step
                          ELSE IF k = "fixed" THEN fixed
                          ELSE IF k = "prior" THEN prior
                          ELSE IF k = "std" THEN std
                          ELSE converged]
        IN  /\ fn = "none"
            /\ fn' = "Parameter"
            /\ args' = [array |-> name, kwargs |-> kwargs]
            /\ ret' = ParameterNew(name, kwargs)

SpecParameter == Init /\ [][CallParameter \/ Return]_vars

\* The number of wavelet scales goes up to MaxScales.
MaxScales == 3

\* The norm of a transform with lvl scales: one value per scale, all different.
StarletNorm(lvl) == [l \in 1 .. lvl |-> R(1, Pow2(l - 1))]

\* Per-channel noise levels: the same in every channel, growing with the
\* channel, or none at all.
NoisePatterns == {"flat", "ramp", "zero"}
NoiseOf(pattern, n) ==
    [c \in 1 .. n |->
        IF pattern = "flat" THEN R(1, 2)
        ELSE IF pattern = "ramp" THEN I(c)
        ELSE Zero]

StarletThreshs == {I(5), I(3)}

\* StarletSource(frame, sky_coord, observations, coadd, bg_cutoff,
\* starlet_thresh=...), thresh and min_grad at their defaults.
CallStarletSource ==
    \E sky_coord \in Centers, mode \in CoaddModes, starlet_thresh \in StarletThreshs,
       pattern \in NoisePatterns, lvl \in 1 .. MaxScales :
        \E observations \in MultiFields(MaxC) :
            LET frame == [C |-> MaxC * Len(observations), psf |-> None]
                coadd == CoaddArg(mode, observations[1])
                bg_cutoff == CutoffArg(mode)
                noise == NoiseOf(pattern, frame.C)
            IN  /\ fn = "none"
                /\ fn' = "StarletSource"
                /\ args' = [sky_coord |-> sky_coord, frame |-> frame,
                            observations |-> observations, coadd |-> coadd,
                            bg_cutoff |-> bg_cutoff, starlet_thresh |-> starlet_thresh,
                            noise |-> noise, lvl |-> lvl,
                            starlet_norm |-> StarletNorm(lvl)]
                /\ ret' = StarletSource(frame, sky_coord, observations, coadd, bg_cutoff,
                                        One, starlet_thresh, Zero, noise, lvl,
                                        StarletNorm(lvl))

SpecStarlet == Init /\ [][CallStarletSource \/ Return]_vars

\* PSF models of the model frame are one channel of up to MaxPsf x MaxPsf
\* pixels, the peak in the middle.
MaxPsf == 5

PsfModel(H, W) ==
    [image |-> <<[p \in Idx(H, W) |->
                    IF p = <<H \div 2, W \div 2>> THEN One ELSE R(1, 4)]>>]

PsfModels == {None} \cup {Some(PsfModel(H, W)) : H \in 1 .. MaxPsf, W \in 1 .. MaxPsf}

\* PointSource(model_frame, sky_coord, observations)
CallPointSource ==
    \E C \in 1 .. MaxC, sky_coord \in Centers, psf \in PsfModels :
        \E observations \in MultiFields(C) :
            LET model_frame == [C |-> C * Len(observations), psf |-> psf]
            IN  /\ fn = "none"
                /\ fn' = "PointSource"
                /\ args' = [model_frame |-> model_frame, sky_coord |-> sky_coord,
                            observations |-> observations]
                /\ ret' = PointSource(model_frame, sky_coord, observations)

SpecPoint == Init /\ [][CallPointSource \/ Return]_vars

\* Observations for the composite source, with and without weights: a
\* symmetric source five pixels wide (the scene "wide"), or a faint one.
TreeFields(C) ==
    {Field(n, C, scene, wp) :
        n \in 1 .. MaxObs, scene \in {"wide", "faint"}, wp \in {"none", "unit"}}

TreePercentiles == {None, Some(<<I(75), I(25)>>), Some(<<>>)}

\* MultiComponentSource(model_frame, sky_coord, observations, thresh, coadd,
\* bg_cutoff, flux_percentiles, symmetric, monotonic, shifting, min_grad)
CallMultiComponentSource ==
    \E mode \in {"build", "given"}, flux_percentiles \in TreePercentiles,
       symmetric \in BoolTokens, monotonic \in {"flat", "None"}, shifting \in BoolTokens :
        \E observations \in TreeFields(MaxC) :
            LET model_frame == [C |-> MaxC * Len(observations), psf |-> None]
                coadd == CoaddArg(mode, observations[1])
                bg_cutoff == CutoffArg(mode)
            IN  /\ fn = "none"
                /\ fn' = "MultiComponentSource"
                /\ args' = [model_frame |-> model_frame, sky_coord |-> ImageCenter,
                            observations |-> observations, thresh |-> One,
                            coadd |-> coadd, bg_cutoff |-> bg_cutoff,
                            flux_percentiles |-> flux_percentiles,
                            symmetric |-> symmetric, monotonic |-> monotonic,
                            shifting |-> shifting, min_grad |-> R(1, 5)]
                /\ ret' = MultiComponentSource(model_frame, ImageCenter, observations, One,
                                               coadd, bg_cutoff, flux_percentiles,
                                               symmetric, monotonic, shifting, R(1, 5))

SpecTree == Init /\ [][CallMultiComponentSource \/ Return]_vars

\* How one array is obtained from another.
Derivations == {"slice", "view", "copy"}

\* p = Parameter(array, name=..., constraint=..., step=..., fixed=...)
\* followed by p[:1], p.view() or p.copy(): numpy makes the new array and
\* calls __array_finalize__ on it with obj = p.
CallDerive ==
    \E name \in ParameterNames, constraint \in ParameterConstraints,
       step \in ParameterSteps, fixed \in BOOLEAN, how \in Derivations :
        LET p == ParameterNew(name, [name |-> name, constraint |-> constraint,
                                     step |-> step, fixed |-> fixed])
        IN  /\ fn = "none"
            /\ fn' = "derive"
            /\ args' = [obj |-> p, how |-> how]
            /\ ret' = ArrayFinalize(p, <<how, name>>)

SpecDerive == Init /\ [][CallDerive \/ Return]_vars

SpecTrim == Init /\ [][CallTrimMorphology \/ Return]_vars

---------------------------------------------------------------------------
(* C1 *)

BoxSide(bbox, axis) == bbox.stop[axis] - bbox.start[axis]

\* C1: the box trim_morphology returns is square in space, its side is
\* 16 * 2^n for some n >= 0, it spans the frame's channels, it contains the
\* center pixel, and the returned morphology has the box's shape.
C1_BoxSizeAndCenter ==
    fn = "trim_morphology" =>
        LET b == ret.bbox
            c == GetPixel(args.frame, args.sky_coord)
        IN  /\ BoxSide(b, 2) = BoxSide(b, 3)
            /\ \E n \in 0 .. MorphNy + MorphNx : BoxSide(b, 2) = 16 * Pow2(n)
            /\ b.start[2] <= c[1] /\ c[1] < b.stop[2]
            /\ b.start[3] <= c[2] /\ c[2] < b.stop[3]
            /\ DOMAIN ret.morph = Idx(BoxSide(b, 2), BoxSide(b, 3))

\* A call in which pixels survive and the box was doubled twice.
C1_Witness ==
    /\ fn = "trim_morphology"
    /\ ~ret.warned
    /\ BoxSide(ret.bbox, 2) = 64

---------------------------------------------------------------------------
(* C3 *)

AllSedPositive(seds) ==
    \A i \in 1 .. Len(seds) : \A c \in 1 .. Len(seds[i]) : Gt(seds[i][c], Zero)

AllRmsPositive(bg_rmses) ==
    \A i \in 1 .. Len(bg_rmses) : \A c \in 1 .. Len(bg_rmses[i]) :
        Gt(bg_rmses[i][c].coef, Zero)

HasReference(observations) ==
    \E i \in 1 .. Len(observations) : observations[i].kind = "Observation"

\* C3: build_sed_coadd with every SED and every RMS value strictly positive
\* returns a strictly positive (finite) bg_cutoff; with a zero or negative RMS
\* entry in any observation it raises and returns neither coadd nor cutoff,
\* whatever the SEDs are (a ValueError whenever the list holds a reference
\* observation to start from).
C3_CoaddCutoff ==
    fn = "build_sed_coadd" =>
        /\ (AllSedPositive(args.seds) /\ AllRmsPositive(args.bg_rmses)
                /\ HasReference(args.observations)) =>
              /\ ret.status = "ok"
              /\ SurdSign(ret.bg_cutoff) = 1
              /\ IsFinite(ret.bg_cutoff.coef) /\ IsFinite(ret.bg_cutoff.rad)
        /\ ~AllRmsPositive(args.bg_rmses) =>
              /\ ret.status # "ok"
              /\ DOMAIN ret = {"status"}
              /\ HasReference(args.observations) => ret.status = "ValueError"

\* Two observations with positive SEDs and RMS of several values: a cutoff
\* was returned.
C3_Witness ==
    /\ fn = "build_sed_coadd"
    /\ Len(args.observations) = 2
    /\ AllSedPositive(args.seds) /\ AllRmsPositive(args.bg_rmses)
    /\ \E c \in 1 .. Len(args.bg_rmses[1]) : args.bg_rmses[1][c].coef # One
    /\ ret.status = "ok"

---------------------------------------------------------------------------
(* C7 *)

\* The largest value of an image, found without ArrMax.
PeakOf(image) ==
    CHOOSE v \in {image[p] : p \in DOMAIN image} :
        \A p \in DOMAIN image : ~Gt(image[p], v)

PixelValue(observation, sky_coord, c) == observation.images[c][sky_coord]

\* C7: get_pixel_sed returns the image value at the pixel of the position in
\* every channel; get_psf_sed returns that value divided by the peak of the
\* observation's PSF in the same channel (when it has a PSF) and multiplied by
\* the peak of the frame's PSF in channel 0 (when it has one); with frame peak
\* 2 and observation peaks 1 the result is twice the pixel SED.
C7_PsfSed ==
    /\ fn = "get_pixel_sed" =>
          /\ Len(ret.sed) = Len(args.observation.images)
          /\ \A c \in 1 .. Len(ret.sed) :
                ret.sed[c] = PixelValue(args.observation, args.sky_coord, c)
    /\ fn = "get_psf_sed" =>
          /\ Len(ret.sed) = Len(args.observation.images)
          /\ \A c \in 1 .. Len(ret.sed) :
                LET pix == PixelValue(args.observation, args.sky_coord, c)
                    opsf == args.observation.frame.psf
                    fpsf == args.frame.psf
                    own == IF IsNone(opsf) THEN pix
                           ELSE Div(pix, PeakOf(opsf.v.image[c]))
                    want == IF IsNone(fpsf) THEN own
                            ELSE Mul(own, PeakOf(fpsf.v.image[1]))
                IN  /\ ret.sed[c] = want
                    /\ (~IsNone(opsf) /\ ~IsNone(fpsf)
                            /\ PeakOf(opsf.v.image[c]) = One
                            /\ PeakOf(fpsf.v.image[1]) = I(2))
                        => ret.sed[c] = Mul(I(2), pix)

\* The scenario: frame peak 2 in channel 0 (and another peak in channel 1),
\* observation peaks 1, a non-zero pixel SED in the second channel.
C7_Witness ==
    /\ fn = "get_psf_sed"
    /\ Len(ret.sed) = 2
    /\ ~IsNone(args.observation.frame.psf) /\ ~IsNone(args.frame.psf)
    /\ PeakOf(args.observation.frame.psf.v.image[2]) = One
    /\ PeakOf(args.frame.psf.v.image[1]) = I(2)
    /\ PeakOf(args.frame.psf.v.image[2]) # I(2)
    /\ PixelValue(args.observation, args.sky_coord, 2) # Zero
    /\ ret.sed[2] = Mul(I(2), PixelValue(args.observation, args.sky_coord, 2))

---------------------------------------------------------------------------
(* C4 *)

\* The center pixel in the coordinates of the returned box.
CenterInBox(frame, sky_coord, bbox) ==
    LET c == GetPixel(frame, sky_coord)
    IN  <<c[1] - bbox.start[2], c[2] - bbox.start[3]>>

\* C4: whenever init_extended_source finds a pixel above bg_cutoff * thresh,
\* the morphology it returns has maximum exactly 1 and is exactly 1 at the
\* center pixel, for every setting of symmetric and monotonic.
C4_PeakIsOne ==
    (fn = "init_extended_source" /\ ret.status = "ok" /\ "noflux" \notin ret.warned) =>
        /\ ArrMax(ret.morph) = One
        /\ ret.morph[CenterInBox(args.frame, args.sky_coord, ret.bbox)] = One

---------------------------------------------------------------------------
(* C2 *)

\* The pixel-by-pixel sum of a list of layers.
LayerSum(layers, p) == SumSeq([k \in 1 .. Len(layers) |-> layers[k][p]])

\* C2 as stated: the K layers init_multicomponent_source returns sum, pixel
\* by pixel, to the single-component morphology of init_extended_source for
\* the same inputs.
C2_ReturnedLayersSum ==
    (fn = "init_multicomponent_source" /\ ret.status = "ok") =>
        /\ Len(ret.morphs) = Len(ret.layers)
        /\ \A p \in DOMAIN ret.morph : LayerSum(ret.morphs, p) = ret.morph[p]

\* C2 amended: the K = len(flux_percentiles) + 1 layers sum to the
\* single-component morphology as they are built, before the normalization;
\* each returned layer is the built layer divided by its own maximum.
C2_BuiltLayersSum ==
    (fn = "init_multicomponent_source" /\ ret.status = "ok") =>
        /\ Len(ret.layers) =
              (IF IsNone(args.flux_percentiles) THEN 1
               ELSE Len(args.flux_percentiles.v)) + 1
        /\ Len(ret.morphs) = Len(ret.layers)
        /\ \A p \in DOMAIN ret.morph : LayerSum(ret.layers, p) = ret.morph[p]
        /\ \A k \in 1 .. Len(ret.layers) : \E peak \in {ArrMax(ret.layers[k])} :
              \A p \in DOMAIN ret.morph : ret.morphs[k][p] = Div(ret.layers[k][p], peak)

\* Three layers that each hold flux at one pixel, where the returned layers
\* add up to more than the morphology.
C2_Witness ==
    /\ fn = "init_multicomponent_source"
    /\ ret.status = "ok"
    /\ Len(ret.layers) = 3
    /\ \E p \in DOMAIN ret.morph :
          /\ \A k \in 1 .. 3 : Gt(ret.layers[k][p], Zero)
          /\ LayerSum(ret.layers, p) = ret.morph[p]
          /\ Gt(LayerSum(ret.morphs, p), ret.morph[p])

---------------------------------------------------------------------------
(* C5 *)

AllFinite(a) == \A p \in DOMAIN a : IsFinite(a[p])

\* Weights present for every observation, and a cutoff with every coadd.
WellFormed(a) ==
    /\ \A i \in 1 .. Len(a.observations) : ~IsNone(a.observations[i].weights)
    /\ IsNone(a.coadd) \/ ~IsNone(a.bg_cutoff)

\* C5: with well-formed inputs, when the SED at the position is <= 0 in
\* every channel and no coadd is supplied, or no pixel is above the
\* threshold, or a layer of the split is entirely non-positive, both
\* init_extended_source and init_multicomponent_source return a result, raise
\* nothing, and divide by zero nowhere: every entry of the result is finite.
C5_DegenerateOnlyWarns ==
    (/\ fn \in {"init_extended_source", "init_multicomponent_source"}
     /\ WellFormed(args)
     /\ \/ "sed" \in ret.warned /\ IsNone(args.coadd)
        \/ "noflux" \in ret.warned
        \/ "layer" \in ret.warned) =>
        /\ ret.status = "ok"
        /\ fn = "init_extended_source" => AllFinite(ret.morph)
        /\ fn = "init_multicomponent_source" =>
              /\ \A k \in 1 .. Len(ret.morphs) : AllFinite(ret.morphs[k])
              /\ \A k \in 1 .. Len(ret.seds) :
                    \A c \in 1 .. Len(ret.seds[k]) : IsFinite(ret.seds[k][c])

---------------------------------------------------------------------------
(* C6 *)

Factories == {"Random", "Point", "Starlets", "Extended", "MultiComponent"}

\* The constructor behind each factory, and its signature.
ClassOf(factory) ==
    CASE factory = "Random" -> "RandomSource"
      [] factory = "Point" -> "PointSource"
      [] factory = "Starlets" -> "StarletSource"
      [] factory = "Extended" -> "ExtendedSource"
      [] factory = "MultiComponent" -> "MultiComponentSource"

ParamsOf(factory) ==
    CASE factory = "Random" -> RandomSourceParams
      [] factory = "Point" -> PointSourceParams
      [] factory = "Starlets" -> StarletSourceParams
      [] factory = "Extended" -> ExtendedSourceParams
      [] factory = "MultiComponent" -> MultiComponentSourceParams

\* Every captured value, coadd and bg_cutoff bound to the parameter of the
\* same name, and the caller's arguments to the leading parameters.
BoundByName(factory, a) ==
    LET params == ParamsOf(factory)
    IN  [p \in {params[i] : i \in 1 .. Len(params)} |->
            IF p \in DOMAIN a.captured THEN a.captured[p]
            ELSE IF p = "coadd" THEN a.coadd
            ELSE IF p = "bg_cutoff" THEN a.bg_cutoff
            ELSE a.call[CHOOSE i \in 1 .. Len(params) : params[i] = p]]

\* C6: whatever configuration a factory has captured, calling it with
\* (frame, sky position, observations) and coadd / bg_cutoff builds exactly
\* the source that the constructor builds when every captured value, coadd
\* and bg_cutoff is bound to the constructor's parameter of the same name.
C6_FactoryBindsByName ==
    fn \in Factories =>
        /\ ret.status = "ok"
        /\ ret = Construct(ClassOf(fn), [status |-> "ok", bound |-> BoundByName(fn, args)])

---------------------------------------------------------------------------
(* C9 *)

\* C9: a Parameter built with a name, a constraint, a step rule and a fixed
\* flag holds those four values as metadata, and prior, converged and std as
\* given or at their defaults.
C9_ParameterHoldsMetadata ==
    fn = "Parameter" =>
        /\ "name" \in DOMAIN ret.attrs /\ ret.attrs["name"] = args.kwargs["name"]
        /\ \A a \in {"constraint", "step", "fixed"} : ret.attrs[a] = args.kwargs[a]
        /\ \A a \in {"prior", "converged", "std"} :
              ret.attrs[a] = IF a \in DOMAIN args.kwargs THEN args.kwargs[a]
                             ELSE ParameterDefault(a)

---------------------------------------------------------------------------
(* C10 *)

\* C10: the morphology constraint of ExtendedSource is the chain, in this
\* order and with nothing else, of: a monotonicity constraint when monotonic,
\* with True read as "angle" and False as None, is not None (with that
\* variant as neighbor weight and min_grad as minimum gradient); a symmetry
\* constraint when symmetric is true; positivity; max-normalization.  The
\* SED parameter has positivity only.
C10_ConstraintChain ==
    fn = "ExtendedSource" =>
        LET variant == CASE args.monotonic = "True" -> "angle"
                         [] args.monotonic = "False" -> "None"
                         [] OTHER -> args.monotonic
            chain == ret.parameters[2].attrs["constraint"].v
            n == Len(chain)
            has_mono == variant # "None"
            has_sym == args.symmetric = "True"
        IN  /\ ret.status = "ok"
            /\ ret.parameters[1].attrs["constraint"] = Some(<< <<"PositivityConstraint">> >>)
            /\ n = 2 + (IF has_mono THEN 1 ELSE 0) + (IF has_sym THEN 1 ELSE 0)
            /\ has_mono => chain[1] = <<"MonotonicityConstraint", variant, args.min_grad>>
            /\ has_sym => chain[n - 2] = <<"SymmetryConstraint">>
            /\ chain[n - 1] = <<"PositivityConstraint">>
            /\ chain[n] = <<"NormalizationConstraint", "max">>

\* monotonic=True and symmetric=True: all four constraints, the first with
\* the "angle" variant.
C10_Witness ==
    /\ fn = "ExtendedSource"
    /\ args.monotonic = "True"
    /\ args.symmetric = "True"
    /\ ret.parameters[2].attrs["constraint"].v =
          << <<"MonotonicityConstraint", "angle", args.min_grad>>, <<"SymmetryConstraint">>,
             <<"PositivityConstraint">>, <<"NormalizationConstraint", "max">> >>

---------------------------------------------------------------------------
(* C8 *)

\* Two surds with the same value (nan taken as equal to nan).
SameValue(a, b) ==
    /\ SurdSign(a) = SurdSign(b)
    /\ SurdSign(a) = 2 \/ SurdSquare(a) = SurdSquare(b)

\* sum over channels of (sed_c * noise_c)^2
NoiseSquare(sed, noise) ==
    SumSeq([c \in 1 .. Len(sed) |-> Mul(Mul(sed[c], sed[c]), Mul(noise[c], noise[c]))])

\* C8: in a StarletSource the threshold array of the sparsity constraint is
\* 0 at every pixel of the last wavelet scale, and at every pixel of every
\* other scale l it is starlet_thresh * sqrt(sum_c (sed_c * noise_c)^2) * norm[l].
C8_ThreshArray ==
    (fn = "StarletSource" /\ ret.status = "ok") =>
        /\ DOMAIN ret.thresh_array = 1 .. args.lvl
        /\ \A l \in 1 .. args.lvl :
              /\ DOMAIN ret.thresh_array[l] = ret.shape[2]
              /\ \A p \in ret.shape[2] :
                    SameValue(ret.thresh_array[l][p],
                              IF l = args.lvl THEN SurdOf(Zero)
                              ELSE [coef |-> Mul(args.starlet_thresh, args.starlet_norm[l]),
                                    rad |-> NoiseSquare(ret.sed, args.noise)])

\* Several scales and a threshold that is not 0: the scales before the last
\* are thresholded, each at its own level, and the last is not.
C8_Witness ==
    /\ fn = "StarletSource"
    /\ ret.status = "ok"
    /\ args.lvl = MaxScales
    /\ \A p \in ret.shape[2] :
          /\ SurdSign(ret.thresh_array[1][p]) = 1
          /\ SurdSign(ret.thresh_array[2][p]) = 1
          /\ ~SameValue(ret.thresh_array[1][p], ret.thresh_array[2][p])
          /\ SurdSign(ret.thresh_array[MaxScales][p]) = 0

---------------------------------------------------------------------------
(* C12 *)

\* The pixels of the input that survive the threshold and are not 0.
Survivors(a) == {p \in TrimMask(a.morph, a.bg_cutoff, a.thresh) : a.morph[p] # Zero}

\* The square of the given side centred on c holds every pixel of S.
SquareHolds(c, side, S) ==
    \A p \in S : /\ c[1] - side \div 2 <= p[1] /\ p[1] < c[1] + side \div 2
                 /\ c[2] - side \div 2 <= p[2] /\ p[2] < c[2] + side \div 2

\* C12: when a pixel survives the threshold, the box trim_morphology returns
\* is the smallest square of side 16 * 2^n centred on the center pixel that
\* holds every surviving pixel, wherever the surviving pixels lie relative
\* to the center.
C12_SmallestBoxHoldsSurvivors ==
    (fn = "trim_morphology" /\ Survivors(args) # {}) =>
        LET c == GetPixel(args.frame, args.sky_coord)
            side == BoxSide(ret.bbox, 2)
        IN  /\ SquareHolds(c, side, Survivors(args))
            /\ side > BaseBoxSize => ~SquareHolds(c, side \div 2, Survivors(args))

---------------------------------------------------------------------------
(* C13 *)

\* The pixel of the input that the pixel p of the returned morphology shows.
InputPixel(bbox, p) == <<p[1] + bbox.start[2], p[2] + bbox.start[3]>>

\* C13: in the morphology trim_morphology returns, every pixel whose input
\* value is not strictly greater than bg_cutoff * thresh is 0, whether some
\* pixel survives the threshold or none does; when none does the returned
\* morphology is all zero.
C13_BelowThresholdIsZero ==
    fn = "trim_morphology" =>
        LET mask == TrimMask(args.morph, args.bg_cutoff, args.thresh)
        IN  /\ \A p \in DOMAIN ret.morph :
                  (InputPixel(ret.bbox, p) \in DOMAIN args.morph \ mask) =>
                      ret.morph[p] = Zero
            /\ mask = {} => \A p \in DOMAIN ret.morph : ret.morph[p] = Zero

---------------------------------------------------------------------------
(* C14 *)

\* C14: for a PSF model of shape (C, H, W) and any center, the box of a
\* PointSource spans the channels of the frame, has spatial height H and
\* width W, and holds the rounded pixel center at the footprint's middle.
C14_BoxIsPsfFootprint ==
    (fn = "PointSource" /\ ret.status = "ok") =>
        LET shape == PsfShape(args.model_frame.psf.v)
            b == ret.bbox
        IN  /\ b.start[1] = 0 /\ b.stop[1] = args.model_frame.C
            /\ BoxSide(b, 2) = shape[2]
            /\ BoxSide(b, 3) = shape[3]
            /\ ret.pixel_center[1] - b.start[2] = shape[2] \div 2
            /\ ret.pixel_center[2] - b.start[3] = shape[3] \div 2

---------------------------------------------------------------------------
(* C15 *)

\* C15: a coadd array supplied by the caller is, after init_extended_source
\* or init_multicomponent_source has returned or raised, element-wise equal to
\* what it was before the call, for every combination of symmetric and
\* monotonic.
C15_CoaddUnchanged ==
    (/\ fn \in {"init_extended_source", "init_multicomponent_source"}
     /\ "caller_coadd" \in DOMAIN ret
     /\ ~IsNone(args.coadd)) =>
        ret.caller_coadd = args.coadd

---------------------------------------------------------------------------
(* C16 *)

\* What init_multicomponent_source gives for the caller's coadd and cutoff.
FromCoadd(a) ==
    InitMulticomponentSource(a.sky_coord, a.model_frame, a.observations, a.coadd,
                             a.bg_cutoff, a.flux_percentiles, a.thresh, TRUE, TRUE,
                             a.min_grad)

\* C16: a MultiComponentSource constructed with a precomputed coadd and
\* bg_cutoff takes its layered morphologies and its box from that coadd and
\* that cutoff: no coadd is built from the observations and their weights
\* are not needed.
C16_UsesGivenCoadd ==
    (/\ fn = "MultiComponentSource"
     /\ ~IsNone(args.coadd)
     /\ ~IsNone(args.bg_cutoff)
     /\ FromCoadd(args).status = "ok") =>
        /\ ret.status = "ok"
        /\ ret.morphs = FromCoadd(args).morphs
        /\ ret.bbox = FromCoadd(args).bbox

---------------------------------------------------------------------------
(* C11 *)

\* The chain of ExtendedSource for these options, with a center-on
\* constraint between positivity and max-normalization.
ExtendedChainCenterOn(monotonic, symmetric, min_grad) ==
    (IF monotonic = "None" THEN <<>>
     ELSE << <<"MonotonicityConstraint", monotonic, min_grad>> >>)
    \o (IF symmetric = "True" THEN << <<"SymmetryConstraint">> >> ELSE <<>>)
    \o << <<"PositivityConstraint">>, <<"CenterOnConstraint">>,
          <<"NormalizationConstraint", "max">> >>

\* C11: a MultiComponentSource built with flux_percentiles P is one
\* composite of len(P) + 1 components (2 when P is None); the components
\* have the same box and pixel center and refer to the same shift parameter,
\* or to none when shifting is false; each has the SED and the morphology of
\* its own layer as parameters, the morphology with the Extended chain and a
\* center-on constraint after positivity and before max-normalization.
C11_Components ==
    (fn = "MultiComponentSource" /\ ret.status = "ok") =>
        LET K == IF IsNone(args.flux_percentiles) THEN 2
                 ELSE Len(args.flux_percentiles.v) + 1
            cs == ret.components
        IN  /\ Len(cs) = K
            /\ Len(ret.morphs) = K
            /\ Len(ret.shifts) = IF args.shifting = "True" THEN 1 ELSE 0
            /\ \A k \in 1 .. K :
                  /\ cs[k].bbox = cs[1].bbox
                  /\ cs[k].pixel_center = args.sky_coord
                  /\ cs[k].shift = IF args.shifting = "True" THEN Some(0) ELSE None
                  /\ cs[k].morph.array = ret.morphs[k]
                  /\ Len(cs[k].sed.array) = args.model_frame.C
                  /\ cs[k].sed.attrs["constraint"] = Some(<< <<"PositivityConstraint">> >>)
                  /\ cs[k].morph.attrs["constraint"] =
                        Some(ExtendedChainCenterOn(args.monotonic, args.symmetric,
                                                   args.min_grad))

\* Three components that share a shift parameter, their chain monotonic and
\* symmetric.
C11_Witness ==
    /\ fn = "MultiComponentSource"
    /\ ret.status = "ok"
    /\ Len(ret.components) = 3
    /\ ret.shifts # <<>>
    /\ \A k \in 1 .. 3 : ret.components[k].shift = Some(0)
    /\ Len(ret.components[3].morph.attrs["constraint"].v) = 5
    /\ ret.components[1].morph.array # ret.components[2].morph.array

---------------------------------------------------------------------------
(* C17 *)

\* C17: a Parameter obtained from another by slicing, viewing or copying has
\* the prior, constraint, step, converged, std and fixed of the Parameter it
\* comes from; its step is not set back to the default 0.
C17_DerivedKeepsMetadata ==
    fn = "derive" =>
        \A a \in {"prior", "constraint", "step", "converged", "std", "fixed"} :
            ret.attrs[a] = args.obj.attrs[a]

=========================================================================
